---- MODULE Spec2Model ----
(***************************************************************************)
(* Resume tailoring pipeline: the Streamlit front-end (streamlit_app.py),  *)
(* the command-line pipeline (main.py), the LLM service (llm_service.py)   *)
(* and the LaTeX compiler wrapper (latex_generator.py).                    *)
(*                                                                         *)
(* Texts (resume, job description, feedback, prompts, replies) are         *)
(* sequences of string tokens; a one-character token " " or "\n" is        *)
(* whitespace.  An f-string that embeds a text is the concatenation of the *)
(* literal parts and the embedded text.                                    *)
(*                                                                         *)
(* One action is one run of an entry point: a rerun of the Streamlit       *)
(* script main() (widget change, Transform click, Apply Feedback click) or *)
(* one run of the command line.  lastRun is the log of that run: the       *)
(* stages it entered, the provider requests it issued, how it ended.       *)
(***************************************************************************)
EXTENDS Integers, Sequences, FiniteSets, TLC

VARIABLES
    entry,                \* the program run: "streamlit_app", "main", "latex_generator"
    resume_text,          \* st.session_state.resume_text
    job_description,      \* st.session_state.job_description
    processing,           \* st.session_state.processing
    latex_output,         \* st.session_state.latex_output
    conversation,         \* st.session_state.conversation
    followups_used,       \* st.session_state.followups_used
    max_followups,        \* st.session_state.max_followups
    processing_followup,  \* st.session_state.processing_followup
    transformed_content,  \* st.session_state.transformed_content
    provider,             \* st.session_state.provider (unset before a transform)
    api_key,              \* st.session_state.api_key  (unset before a transform)
    nRefined,             \* refinements applied to the stored conversation
    pipeline,             \* how the session's last Transform pipeline ended
    lastRun,              \* log of the last run of an entry point
    cli,                  \* main.py: what the last command-line run read and wrote
    genai_key,            \* google.generativeai: the key of the last genai.configure
    sessions              \* the browser sessions served by one Streamlit process

vars == <<entry, resume_text, job_description, processing, latex_output,
          conversation, followups_used, max_followups, processing_followup,
          transformed_content, provider, api_key, nRefined, pipeline, lastRun, cli,
          genai_key, sessions>>

\* the state of the Streamlit server process shared by its sessions
server == <<genai_key, sessions>>

-----------------------------------------------------------------------------
(* Values *)

\* Python None, as a text no input can be
None == <<"<None>">>

\* `not x` is False: x is neither None nor the empty string
Truthy(x) == x # None /\ x # <<>>

IsSpace(c) == c \in {" ", "\n"}

RECURSIVE lstrip(_)
lstrip(s) == IF s = <<>> THEN s
             ELSE IF IsSpace(Head(s)) THEN lstrip(Tail(s)) ELSE s

RECURSIVE rstrip(_)
rstrip(s) == IF s = <<>> THEN s
             ELSE IF IsSpace(s[Len(s)]) THEN rstrip(SubSeq(s, 1, Len(s) - 1)) ELSE s

\* str.strip()
strip(s) == rstrip(lstrip(s))

ProviderErrors == {"ProviderCallError", "ProviderTimeoutError"}

\* what one provider call does: answers, or raises
ProviderOutcomes == [ok : {TRUE}, error : {"none"}]
                    \cup [ok : {FALSE}, error : ProviderErrors]

\* the outcomes of the two provider calls of one run; the second call is
\* issued only when the first one answered
RunOutcomes == {o \in ProviderOutcomes \X ProviderOutcomes : ~o[1].ok => o[2].ok}

\* The provider is opaque.  Its answer to a conversation is a text that is in
\* no earlier message of that conversation: the k-th revision of the resume
\* for a conversation with k user messages, followed by a newline.
RevisionTokens == <<"revision1", "revision2", "revision3", "revision4",
                    "revision5", "revision6", "revision7", "revision8">>

RECURSIVE UserTurns(_)
UserTurns(h) ==
    IF h = <<>> THEN 0
    ELSE (IF h[1].role = "user" THEN 1 ELSE 0) + UserTurns(Tail(h))

RawAnswer(h) == <<RevisionTokens[UserTurns(h)], "\n">>

\* number of distinct resumes a user may bring to one session
NumResumes == 2

ResumeTokens == <<"resumeA", "resumeB", "resumeC", "resumeD">>

ResumeTexts == {<<ResumeTokens[i]>> : i \in 1..NumResumes}
JobTexts == {<<"jobA">>}

\* what the user may type into the feedback box
Feedbacks == {<<>>, <<"\n", " ">>, <<" ", "feedback">>}

\* API keys a user may enter: none, an OpenAI key, a Gemini key
ApiKeys == {<<>>, <<"sk-", "k">>, <<"AIza", "k">>}

Msg(r, c) == [role |-> r, content |-> c]

IsPrefix(s, t) == Len(s) <= Len(t) /\ SubSeq(t, 1, Len(s)) = s

\* s occurs in t as a contiguous block
Contains(t, s) == \E i \in 0..(Len(t) - Len(s)) : SubSeq(t, i + 1, i + Len(s)) = s

-----------------------------------------------------------------------------
(* llm_service.py *)

\* a request as the backend receives it: an ordered message list (chat
\* backends) or one prompt text (single-turn backend)
ChatRequest(kind, prov, msgs) ==
    [kind |-> kind, provider |-> prov, shape |-> "messages", messages |-> msgs, text |-> <<>>]

TextRequest(kind, prov, txt) ==
    [kind |-> kind, provider |-> prov, shape |-> "text", messages |-> <<>>, text |-> txt]

TransformSystem == <<"You are an expert resume writer specializing in ATS-optimized, storytelling resumes.">>

TransformPrompt(resume, jd) ==
    <<"You are an expert resume writer", "JOB DESCRIPTION:">> \o jd
        \o <<"ORIGINAL RESUME:">> \o resume \o <<"CRITICAL REQUIREMENTS", "REASONING PROCESS">>

FormatSystem == <<"You are a LaTeX formatting expert specializing in resume documents.">>

FormatPrompt(content, template) ==
    <<"You are a LaTeX expert.", "TRANSFORMED RESUME CONTENT:">> \o content
        \o <<"LATEX TEMPLATE STRUCTURE:">> \o template \o <<"INSTRUCTIONS">>

\* LLMService.transform_resume_content: no validation of its inputs; the
\* OpenAI and Groq branches send system + user, the Gemini branch the prompt
transform_resume_content(prov, resume, jd, out) ==
    LET prompt == TransformPrompt(resume, jd)
        req == IF prov = "gemini"
               THEN TextRequest("transform", prov, prompt)
               ELSE ChatRequest("transform", prov,
                        <<Msg("system", TransformSystem), Msg("user", prompt)>>)
    IN [ok |-> out.ok, error |-> out.error, calls |-> <<req>>,
        content |-> IF out.ok
                    THEN strip(RawAnswer(<<Msg("system", TransformSystem), Msg("user", prompt)>>))
                    ELSE <<>>]

\* the document the provider writes for a formatting prompt
DocumentFor(content) == <<"\\documentclass">> \o content \o <<"\\end{document}", "\n">>

\* LLMService.format_to_latex: one stateless call
format_to_latex(prov, content, template, out) ==
    LET prompt == FormatPrompt(content, template)
        req == IF prov = "gemini"
               THEN TextRequest("format", prov, prompt)
               ELSE ChatRequest("format", prov,
                        <<Msg("system", FormatSystem), Msg("user", prompt)>>)
    IN [ok |-> out.ok, error |-> out.error, calls |-> <<req>>,
        latex |-> IF out.ok THEN strip(DocumentFor(content)) ELSE <<>>]

\* the conversation-aware variant the front-end calls -------------------------

\* seed(resumeText, jobDescription): system persona + instructions
seed(resume, jd) ==
    <<Msg("system", TransformSystem), Msg("user", TransformPrompt(resume, jd))>>

FeedbackFraming == <<"Rewrite the entire resume, applying this feedback:">>

\* chat(history): multi-turn backends get the history as it is, the
\* single-turn backend the "ROLE: content" blocks joined by blank lines
RECURSIVE Flatten(_)
Flatten(h) ==
    IF h = <<>> THEN <<>>
    ELSE <<h[1].role, ": ">> \o h[1].content
            \o (IF Len(h) > 1 THEN <<"\n", "\n">> ELSE <<>>) \o Flatten(Tail(h))

chat(kind, prov, h) ==
    IF prov = "gemini" THEN TextRequest(kind, prov, Flatten(h))
    ELSE ChatRequest(kind, prov, h)

\* LLMService.transform_resume_with_history -> (content, history)
transform_resume_with_history(prov, resume, jd, out) ==
    IF resume = <<>> \/ jd = <<>>
    THEN [ok |-> FALSE, error |-> "EmptyInputError", calls |-> <<>>,
          content |-> <<>>, history |-> <<>>]
    ELSE LET h == seed(resume, jd)
             reply == strip(RawAnswer(h))
         IN [ok |-> out.ok, error |-> out.error, calls |-> <<chat("transform", prov, h)>>,
             content |-> IF out.ok THEN reply ELSE <<>>,
             history |-> IF out.ok THEN Append(h, Msg("assistant", reply)) ELSE <<>>]

\* LLMService.refine_with_feedback -> (content, history)
refine_with_feedback(prov, history, feedback, out) ==
    IF strip(feedback) = <<>>
    THEN [ok |-> FALSE, error |-> "InvalidFeedbackError", calls |-> <<>>,
          content |-> <<>>, history |-> <<>>]
    ELSE LET h == Append(history, Msg("user", FeedbackFraming \o feedback))
             reply == strip(RawAnswer(h))
         IN [ok |-> out.ok, error |-> out.error, calls |-> <<chat("refine", prov, h)>>,
             content |-> IF out.ok THEN reply ELSE <<>>,
             history |-> IF out.ok THEN Append(h, Msg("assistant", reply)) ELSE <<>>]

-----------------------------------------------------------------------------
(* latex_generator.py *)

\* LaTeXGenerator.get_default_template
get_default_template == <<"\\documentclass[letterpaper,11pt]{article}">>


\* a file of a directory, named as pathlib splits it: Path.stem and Path.suffix
File(stem, ext) == [stem |-> stem, ext |-> ext]

\* (success, pdf_path) carries no path
NoPath == File("<None>", "<None>")

\* LaTeXGenerator.save_latex_output: forces the .tex extension and writes the
\* file, or raises OSError
save_latex_output(dir, output_path, ok) ==
    LET path == IF output_path.ext # ".tex" THEN File(output_path.stem, ".tex")
                ELSE output_path
    IN  [ok |-> ok, error |-> IF ok THEN "none" ELSE "OSError",
         path |-> path, dir |-> IF ok THEN dir \cup {path} ELSE dir]

\* what the compiler tool does in one call of compile_to_pdf: whether it is
\* found, whether each pass ends within its timeout, whether a pass that ends
\* writes the PDF, and the files whose unlink() raises
CompilerBehaviours ==
    [tool : {"found", "missing"}, pass1 : {"ok", "timeout"},
     pass2 : {"ok", "timeout"}, pdf : BOOLEAN, locked : SUBSET {".log"}]

\* `pdflatex --version`
version_probe == <<"pdflatex", "--version">>

\* `["pdflatex", "-interaction=nonstopmode", tex_filename]`, first compilation
first_pass(tex_path) == <<"pdflatex", "-interaction=nonstopmode", tex_path.stem, tex_path.ext>>

\* second_pass with other arguments than the first compilation
second_pass_draftmode(tex_path) == <<"pdflatex", "-draftmode", tex_path.stem, tex_path.ext>>

\* `["pdflatex", "-interaction=nonstopmode", tex_filename]`, second compilation
second_pass(tex_path) == <<"pdflatex", "-interaction=nonstopmode", tex_path.stem, tex_path.ext>>

\* the directory after one run of the tool in it: a run writes the log, a run
\* that ends writes the .aux file too, and the PDF when it has pages to ship;
\* a PDF that was there before is not removed
pdflatex(dir, tex_path, pass, pdf) ==
    dir \cup {File(tex_path.stem, ".log")}
        \cup (IF pass = "ok" THEN {File(tex_path.stem, ".aux")} ELSE {})
        \cup (IF pass = "ok" /\ pdf THEN {File(tex_path.stem, ".pdf")} ELSE {})

\* tool_found without the `pdflatex --version` probe
tool_found_unchecked(c) == TRUE

\* compile_to_pdf, the probe: FileNotFoundError means the tool is not in PATH
tool_found(c) == c.tool = "found"

\* timed_out with the TimeoutExpired swallowed
timed_out_swallowed(pass) == FALSE

\* compile_to_pdf, `except subprocess.TimeoutExpired:` -- the pass ran into
\* its timeout of 60 seconds
timed_out(pass) == pass = "timeout"

\* compile_result returning the path also when the PDF is not there
compile_result_keeps_path(exists, pdf_path) ==
    [success |-> exists, pdf_path |-> pdf_path]

\* compile_to_pdf, `if pdf_path.exists(): ... return True, pdf_path` /
\* `else: ... return False, None`
compile_result(exists, pdf_path) ==
    IF exists THEN [success |-> TRUE, pdf_path |-> pdf_path]
    ELSE [success |-> FALSE, pdf_path |-> NoPath]

\* intermediate_extensions without '.aux'
intermediate_extensions_short == <<".log", ".out", ".synctex.gz", ".fdb_latexmk", ".fls">>

\* _cleanup_intermediate_files, the list of extensions to delete
intermediate_extensions == <<".log", ".aux", ".out", ".synctex.gz", ".fdb_latexmk", ".fls">>

\* LaTeXGenerator._cleanup_intermediate_files: unlink() of every
\* base_name + ext that exists; an unlink() that raises is passed over
cleanup_intermediate_files(dir, tex_path, locked) ==
    dir \ {File(tex_path.stem, intermediate_extensions[i]) :
              i \in {j \in 1..Len(intermediate_extensions) :
                        intermediate_extensions[j] \notin locked}}

\* LaTeXGenerator.compile_to_pdf -> (success, pdf_path), or raises; with the
\* commands it ran and the directory it leaves
compile_to_pdf(dir, tex_path, cleanup, c) ==
    LET pdf_path == File(tex_path.stem, ".pdf")
        d1 == pdflatex(dir, tex_path, c.pass1, c.pdf)
        d2 == pdflatex(d1, tex_path, c.pass2, c.pdf)
        one == <<version_probe, first_pass(tex_path)>>
        two == Append(one, second_pass(tex_path))
        Raise(err, inv, d) ==
            [raised |-> TRUE, error |-> err, invocations |-> inv,
             success |-> FALSE, pdf_path |-> NoPath, dir |-> d]
    IN  IF tex_path \notin dir
        THEN Raise("FileNotFoundError", <<>>, dir)
        ELSE IF tex_path.ext # ".tex"
        THEN Raise("ValueError", <<>>, dir)
        ELSE IF ~tool_found(c)
        THEN Raise("ToolNotFoundError", <<version_probe>>, dir)
        ELSE IF timed_out(c.pass1)
        THEN Raise("CompilationTimeoutError", one, d1)
        ELSE IF timed_out(c.pass2)
        THEN Raise("CompilationTimeoutError", two, d2)
        ELSE LET r == compile_result(pdf_path \in d2, pdf_path)
             IN  [raised |-> FALSE, error |-> "none", invocations |-> two,
                  success |-> r.success, pdf_path |-> r.pdf_path,
                  dir |-> IF r.success /\ cleanup
                          THEN cleanup_intermediate_files(d2, tex_path, c.locked)
                          ELSE d2]

-----------------------------------------------------------------------------
(* streamlit_app.py *)

\* detect_api_provider: the provider code for a key, "none" when undetected
detect_api_provider(key) ==
    IF key = <<>> THEN "none"
    ELSE LET k == strip(key)
         IN IF k = <<>> THEN "none"
            ELSE IF k[1] = "sk-" THEN "openai"
            ELSE IF k[1] = "AIza" THEN "gemini"
            ELSE IF k[1] = "gsk_" THEN "groq"
            ELSE "none"

\* `st.session_state.max_followups = 5`
MaxFollowups == 5

\* st.session_state as a record
Session ==
    [resume_text |-> resume_text, job_description |-> job_description,
     processing |-> processing, latex_output |-> latex_output,
     conversation |-> conversation, followups_used |-> followups_used,
     max_followups |-> max_followups, processing_followup |-> processing_followup,
     transformed_content |-> transformed_content, provider |-> provider,
     api_key |-> api_key]

\* initialize_session_state; an unset conversation is the empty sequence
initialize_session_state ==
    [resume_text |-> None, job_description |-> None, processing |-> FALSE,
     latex_output |-> None, conversation |-> <<>>, followups_used |-> 0,
     max_followups |-> MaxFollowups, processing_followup |-> FALSE,
     transformed_content |-> None, provider |-> "unset", api_key |-> None]

\* an input widget: the file uploader (no file, a file that extracts to
\* `text`, a file whose extraction raises) or the text area holding `text`
Widgets(texts) ==
    [method : {"paste"}, status : {"ok"}, text : texts \cup {<<>>}]
    \cup [method : {"upload"}, status : {"ok"}, text : texts \cup {<<>>}]
    \cup [method : {"upload"}, status : {"nofile", "error"}, text : {<<>>}]

\* the value an input leaves in the session: an upload stores whatever was
\* extracted, a failed upload and an empty text area store nothing
load_input(old, w) ==
    IF w.method = "upload"
    THEN IF w.status = "ok" THEN w.text ELSE old
    ELSE IF w.text # <<>> THEN w.text ELSE old


\* main(), resume and job description inputs
input_section(s, rw, jw) ==
    [s EXCEPT !.resume_text = load_input(s.resume_text, rw),
              !.job_description = load_input(s.job_description, jw)]

\* extract_text_from_uploaded_file: the stage a rerun enters for an uploaded
\* file, and whether it raised
InputStages(w) ==
    IF w.method = "upload" /\ w.status # "nofile" THEN <<"Extracting">> ELSE <<>>

InputFailed(w) ==
    IF w.method = "upload" /\ w.status = "error" THEN {"Extracting"} ELSE {}

\* a widget the user has not touched in this rerun stores nothing new
Untouched == [method |-> "paste", status |-> "ok", text |-> <<>>]

\* the log of a run: the stages entered in order, the stages that raised, the
\* kinds of the provider requests issued in order, the result and the error;
\* for an Apply Feedback run also the feedback typed and the history that
\* refine_with_feedback returned; `format` is what the format request of the
\* run carried; for a rerun caused by an input widget or by Transform Resume,
\* `input_failed` is whether an extraction of the input section raised in it;
\* `requests` are the provider requests of the run as the backends got them
NoRun == [op |-> "none", stages |-> <<>>, failed |-> {}, calls |-> <<>>,
          result |-> "none", error |-> "none", feedback |-> <<>>, refined |-> <<>>,
          format |-> <<>>, input_failed |-> FALSE, requests |-> <<>>]

Kinds(reqs) == [i \in 1..Len(reqs) |-> reqs[i].kind]

\* what a request carries: the roles of its messages in order, or one prompt
Carried(req) ==
    IF req.shape = "text" THEN <<"prompt">>
    ELSE [i \in 1..Len(req.messages) |-> req.messages[i].role]

\* what the format request among reqs carried, <<>> when there is none
FormatCarried(reqs) ==
    IF \E i \in 1..Len(reqs) : reqs[i].kind = "format"
    THEN Carried(reqs[CHOOSE i \in 1..Len(reqs) : reqs[i].kind = "format"])
    ELSE <<>>

Run(op, stages, failed, reqs, result, error) ==
    [op |-> op, stages |-> stages, failed |-> failed, calls |-> Kinds(reqs),
     result |-> result, error |-> error, feedback |-> <<>>, refined |-> <<>>,
     format |-> FormatCarried(reqs), input_failed |-> FALSE, requests |-> reqs]

\* the widgets that may hold what the session holds: a rerun caused by a
\* button runs the input section on them again and stores the same texts
Held(texts, stored) == {w \in Widgets(texts) : load_input(stored, w) = stored}

\* whether an extraction raises when the input section runs again
HeldFailures(s) ==
    {InputFailed(rw) \cup InputFailed(jw) # {} :
        rw \in Held(ResumeTexts, s.resume_text),
        jw \in Held(JobTexts, s.job_description)}

\* transform_commit without `st.session_state.followups_used = 0`
transform_commit_keeps_used(s, content, history, prov, key) ==
    [s EXCEPT !.transformed_content = content,
              !.conversation = history,
              !.max_followups = MaxFollowups,
              !.provider = prov,
              !.api_key = key]

\* main(), the assignments that follow transform_resume_with_history
transform_commit(s, content, history, prov, key) ==
    [s EXCEPT !.transformed_content = content,
              !.conversation = history,
              !.followups_used = 0,
              !.max_followups = MaxFollowups,
              !.provider = prov,
              !.api_key = key]

\* main(), `if process_button:` -- the Transform Resume handler
transform_handler(s, key, radio, o1, o2) ==
    LET det == detect_api_provider(key)
        prov == IF det # "none" THEN det ELSE radio
    IN  IF ~Truthy(s.resume_text) \/ ~Truthy(s.job_description)
        THEN \* "Please provide your resume first!" / "... the job description!"
             [s |-> s,
              run |-> Run("transform", <<>>, {}, <<>>, "Rejected", "EmptyInputError")]
        ELSE IF key = <<>>
        THEN \* "Please enter your API key in the sidebar!"
             [s |-> s,
              run |-> Run("transform", <<>>, {}, <<>>, "Rejected", "ProviderAuthError")]
        ELSE
        LET t == transform_resume_with_history(prov, s.resume_text, s.job_description, o1)
            off(x) == [x EXCEPT !.processing = FALSE, !.processing_followup = FALSE]
            s0 == [s EXCEPT !.processing = TRUE]
            s1 == transform_commit(s0, t.content, t.history, prov, key)
            f == format_to_latex(prov, t.content, get_default_template, o2)
        IN  IF ~t.ok
            THEN [s |-> off(s0),
                  run |-> Run("transform", <<"Transforming">>, {"Transforming"}, t.calls,
                              "Failed", t.error)]
            ELSE IF ~f.ok
            THEN [s |-> off(s1),
                  run |-> Run("transform", <<"Transforming", "Formatting">>, {"Formatting"},
                              t.calls \o f.calls, "Failed", f.error)]
            ELSE [s |-> off([s1 EXCEPT !.latex_output = f.latex]),
                  run |-> Run("transform", <<"Transforming", "Formatting">>, {},
                              t.calls \o f.calls, "Done", "none")]

\* feedback_disabled with the comparison off by one
feedback_disabled_late(s) == s.max_followups - s.followups_used < 0

\* main(), `remaining <= 0`: the feedback box and its button are disabled
feedback_disabled(s) == s.max_followups - s.followups_used <= 0

\* apply_blocked without the budget in the button's `disabled=`
apply_blocked_ignores_budget(s) == s.processing_followup

\* main(), `disabled=feedback_disabled or st.session_state.processing_followup`:
\* the Apply Feedback button delivers no click
apply_blocked(s) == feedback_disabled(s) \/ s.processing_followup

\* main(), `if st.session_state.transformed_content:` -- the refinement
\* interface is rendered
followup_shown(s) == Truthy(s.transformed_content)

\* feedback_missing without the strip()
feedback_missing_unstripped(feedback) == feedback = <<>>

\* main(), `if not feedback.strip():`
feedback_missing(feedback) == strip(feedback) = <<>>

\* followup_commit without `st.session_state.followups_used += 1`
followup_commit_no_count(s, new_content, new_conversation, final_latex) ==
    [s EXCEPT !.transformed_content = new_content,
              !.latex_output = final_latex,
              !.conversation = new_conversation,
              !.processing_followup = FALSE]

\* followup_commit without `st.session_state.conversation = new_conversation`
followup_commit_keeps_conversation(s, new_content, new_conversation, final_latex) ==
    [s EXCEPT !.transformed_content = new_content,
              !.latex_output = final_latex,
              !.followups_used = s.followups_used + 1,
              !.processing_followup = FALSE]

\* followup_commit without `st.session_state.transformed_content = new_content`
followup_commit_keeps_content(s, new_content, new_conversation, final_latex) ==
    [s EXCEPT !.latex_output = final_latex,
              !.conversation = new_conversation,
              !.followups_used = s.followups_used + 1,
              !.processing_followup = FALSE]

\* followup_commit without `st.session_state.latex_output = final_latex`
followup_commit_keeps_document(s, new_content, new_conversation, final_latex) ==
    [s EXCEPT !.transformed_content = new_content,
              !.conversation = new_conversation,
              !.followups_used = s.followups_used + 1,
              !.processing_followup = FALSE]

\* followup_commit storing a sliding window: the oldest message is dropped
followup_commit_window(s, new_content, new_conversation, final_latex) ==
    [s EXCEPT !.transformed_content = new_content,
              !.latex_output = final_latex,
              !.conversation = Tail(new_conversation),
              !.followups_used = s.followups_used + 1,
              !.processing_followup = FALSE]

\* main(), the assignments that follow format_to_latex in the handler
followup_commit(s, new_content, new_conversation, final_latex) ==
    [s EXCEPT !.transformed_content = new_content,
              !.latex_output = final_latex,
              !.conversation = new_conversation,
              !.followups_used = s.followups_used + 1,
              !.processing_followup = FALSE]

\* followup_format_failed with the refined content and conversation stored
\* before the format call, as the Transform handler stores them
followup_format_failed_after_store(s, new_content, new_conversation) ==
    [s EXCEPT !.transformed_content = new_content,
              !.conversation = new_conversation,
              !.processing_followup = FALSE]

\* main(), `except Exception as e:` of the Apply Feedback handler reached from
\* format_to_latex: new_content and new_conversation are dropped with the
\* handler's local variables
followup_format_failed(s, new_content, new_conversation) ==
    [s EXCEPT !.processing_followup = FALSE]

\* main(), `if apply_button:` -- the Apply Feedback handler.  With the button
\* disabled no click arrives: the rerun shows "You've reached the maximum
\* number of follow-ups for this session (5)."
followup_handler(s, feedback, o1, o2) ==
    LET FRun(stages, failed, reqs, result, error, refined) ==
            [Run("followup", stages, failed, reqs, result, error)
                EXCEPT !.feedback = feedback, !.refined = refined]
    IN  IF apply_blocked(s)
        THEN [s |-> s,
              run |-> FRun(<<>>, {}, <<>>, "Rejected", "BudgetExhaustedError", <<>>)]
        ELSE IF feedback_missing(feedback)
        THEN \* "Please enter specific feedback before applying."
             [s |-> s,
              run |-> FRun(<<>>, {}, <<>>, "Rejected", "InvalidFeedbackError", <<>>)]
        ELSE
        LET s0 == [s EXCEPT !.processing_followup = TRUE]
            r == refine_with_feedback(s.provider, s.conversation, feedback, o1)
            f == format_to_latex(s.provider, r.content, get_default_template, o2)
            off(x) == [x EXCEPT !.processing_followup = FALSE]
        IN  IF ~r.ok
            THEN [s |-> off(s0),
                  run |-> FRun(<<"Refining">>, {"Refining"}, r.calls,
                               "Failed", r.error, <<>>)]
            ELSE IF ~f.ok
            THEN [s |-> followup_format_failed(s0, r.content, r.history),
                  run |-> FRun(<<"Refining", "Formatting">>, {"Formatting"},
                               r.calls \o f.calls, "Failed", f.error, r.history)]
            ELSE [s |-> followup_commit(s0, r.content, r.history, f.latex),
                  run |-> FRun(<<"Refining", "Formatting">>, {},
                               r.calls \o f.calls, "Done", "none", r.history)]

\* the run entered the stage and the stage returned
Answered(run, stage) ==
    /\ \E i \in 1..Len(run.stages) : run.stages[i] = stage
    /\ stage \notin run.failed

\* the session after a rerun
Store(s) ==
    /\ resume_text' = s.resume_text
    /\ job_description' = s.job_description
    /\ processing' = s.processing
    /\ latex_output' = s.latex_output
    /\ conversation' = s.conversation
    /\ followups_used' = s.followups_used
    /\ max_followups' = s.max_followups
    /\ processing_followup' = s.processing_followup
    /\ transformed_content' = s.transformed_content
    /\ provider' = s.provider
    /\ api_key' = s.api_key

\* a rerun of main() caused by a change of one input widget: a text pasted,
\* a file uploaded (its text extracted here), the text area cleared
WidgetRerun ==
    /\ entry = "streamlit_app"
    /\ \E rw \in Widgets(ResumeTexts), jw \in Widgets(JobTexts) :
          /\ rw = Untouched \/ jw = Untouched
          /\ Store(input_section(Session, rw, jw))
          /\ UNCHANGED <<nRefined, pipeline>>
          /\ lastRun' = [Run("rerun", InputStages(rw) \o InputStages(jw),
                                InputFailed(rw) \cup InputFailed(jw),
                                <<>>, "none", "none")
                             EXCEPT !.input_failed = InputFailed(rw) \cup InputFailed(jw) # {}]
    /\ UNCHANGED <<entry, cli, server>>

\* a rerun of main() caused by a click on Transform Resume.  The widgets hold
\* what they held in the rerun before: the input section runs again (an
\* uploaded file is extracted again) and stores the same texts, then the
\* handler runs.
TransformClick ==
    /\ entry = "streamlit_app"
    /\ ~processing
    /\ \E key \in ApiKeys, o \in RunOutcomes, ex \in HeldFailures(Session) :
          LET h == transform_handler(Session, key, "openai", o[1], o[2])
          IN  /\ Store(h.s)
              /\ lastRun' = [h.run EXCEPT !.input_failed = ex]
              /\ pipeline' = IF h.run.result = "Rejected" THEN pipeline ELSE h.run.result
              /\ nRefined' = IF Answered(h.run, "Transforming") THEN 0 ELSE nRefined
    /\ UNCHANGED <<entry, cli, server>>

\* a rerun of main() caused by an attempt to apply feedback.  The input
\* section runs again here too and stores the same texts; the log of this
\* run is the handler's.
ApplyFeedbackClick ==
    /\ entry = "streamlit_app"
    /\ followup_shown(Session)
    /\ \E feedback \in Feedbacks, o \in RunOutcomes :
          LET h == followup_handler(Session, feedback, o[1], o[2])
          IN  /\ Store(h.s)
              /\ lastRun' = h.run
              /\ nRefined' = IF h.run.result = "Done" THEN nRefined + 1 ELSE nRefined
    /\ UNCHANGED <<entry, cli, pipeline, server>>

-----------------------------------------------------------------------------
(* main.py *)

\* what a run reads and leaves behind: the texts handed to the transform, the
\* directory before and after, the saved document, and what compile_to_pdf
\* did (`produced`: a pass of this call wrote the PDF; `tool`: whether the
\* compiler was there to be found when compile_to_pdf was called; `timeout`:
\* the pass that ran into its timeout, 0 for none; `locked`: the extensions
\* whose unlink() raised during the cleanup)
NoCli == [resume_text |-> None, job_description |-> None, compile_pdf |-> FALSE,
          saved |-> FALSE, pdf |-> FALSE, passes |-> 0, exit |-> 0,
          before |-> {}, files |-> {}, tex |-> NoPath, cleanup |-> FALSE,
          compile |-> "none", invocations |-> <<>>, success |-> FALSE,
          pdf_path |-> NoPath, produced |-> FALSE, tool |-> "none",
          timeout |-> 0, locked |-> {}]

\* the resume file named on the command line: missing, unreadable, or a file
\* whose text is `text`
ResumeFiles ==
    [status : {"ok"}, text : ResumeTexts \cup {<<>>}]
    \cup [status : {"missing", "error"}, text : {<<>>}]

\* the job description: the positional argument, the file of --job-file
\* (missing, or holding `text`), or neither
JobSources ==
    [kind : {"arg", "file"}, status : {"ok"}, text : JobTexts \cup {<<>>}]
    \cup [kind : {"file"}, status : {"missing"}, text : {<<>>}]

\* -o/--output, `default="updated_resume.tex"`
DefaultOutput == File("updated_resume", ".tex")

\* --api-key: not given (and no key in the environment), or given
CliKeys == {<<>>, <<"sk-", "k">>}

\* the paths a caller may hand to compile_to_pdf
TexPaths == {DefaultOutput, File("updated_resume", ".txt")}

\* the output directory before a command-line run: empty, holding the PDF of
\* an earlier run, or holding the log of another document
OutputDirs ==
    {{}, {File("updated_resume", ".pdf")}, {File("other", ".log")}}

\* the record of one call of compile_to_pdf
Compiled(base, dir, tex_path, cleanup, c) ==
    LET k == compile_to_pdf(dir, tex_path, cleanup, c)
        runs == {i \in 1..Len(k.invocations) : k.invocations[i] # version_probe}
    IN  [base EXCEPT !.files = k.dir, !.cleanup = cleanup,
                     !.compile = IF k.raised THEN k.error ELSE "returned",
                     !.invocations = k.invocations,
                     !.passes = Cardinality(runs),
                     !.success = k.success,
                     !.pdf_path = k.pdf_path,
                     !.pdf = (k.pdf_path # NoPath),
                     !.produced = (runs # {} /\ c.pass1 = "ok" /\ c.pdf),
                     !.tool = c.tool,
                     !.timeout = IF runs = {} THEN 0
                                 ELSE IF c.pass1 = "timeout" THEN 1
                                 ELSE IF c.pass2 = "timeout" THEN 2 ELSE 0,
                     !.locked = IF k.success /\ cleanup THEN c.locked ELSE {}]

\* wants_pdf ignoring the flag
wants_pdf_always(compile_pdf) == TRUE

\* process_resume, `if compile_pdf:`
wants_pdf(compile_pdf) == compile_pdf

\* ResumeUpdater.process_resume -> (saved_path, pdf_path), or raises
process_resume(prov, rfile, jd, output_path, compile_pdf, dir, o1, o2, save_ok, c) ==
    LET base == [NoCli EXCEPT !.job_description = jd, !.compile_pdf = compile_pdf,
                              !.before = dir, !.files = dir]
        read == [base EXCEPT !.resume_text = rfile.text]
        t == transform_resume_content(prov, rfile.text, jd, o1)
        f == format_to_latex(prov, t.content, get_default_template, o2)
        sv == save_latex_output(dir, output_path, save_ok)
        saved == [read EXCEPT !.saved = TRUE, !.tex = sv.path, !.files = sv.dir]
        k == Compiled(saved, sv.dir, sv.path, TRUE, c)
        ETF == <<"Extracting", "Transforming", "Formatting">>
    IN  IF rfile.status = "error"
        THEN [out |-> [base EXCEPT !.exit = 1],
              run |-> Run("cli", <<"Extracting">>, {"Extracting"}, <<>>,
                          "Failed", "ExtractionError")]
        ELSE IF ~t.ok
        THEN [out |-> [read EXCEPT !.exit = 1],
              run |-> Run("cli", <<"Extracting", "Transforming">>, {"Transforming"},
                          t.calls, "Failed", t.error)]
        ELSE IF ~f.ok
        THEN [out |-> [read EXCEPT !.exit = 1],
              run |-> Run("cli", ETF, {"Formatting"}, t.calls \o f.calls,
                          "Failed", f.error)]
        ELSE IF ~sv.ok
        THEN [out |-> [read EXCEPT !.exit = 1],
              run |-> Run("cli", ETF, {"Saving"}, t.calls \o f.calls,
                          "Failed", sv.error)]
        ELSE IF ~wants_pdf(compile_pdf)
        THEN [out |-> saved,
              run |-> Run("cli", ETF, {}, t.calls \o f.calls, "Done", "none")]
        ELSE IF k.compile # "returned"
        THEN \* `except Exception as e:` prints the failure and goes on
             [out |-> k,
              run |-> Run("cli", Append(ETF, "Compiling"), {"Compiling"},
                          t.calls \o f.calls, "Done", k.compile)]
        ELSE [out |-> k,
              run |-> Run("cli", Append(ETF, "Compiling"), {}, t.calls \o f.calls,
                          "Done", "none")]

\* main(): argument handling, then ResumeUpdater(...).process_resume(...)
main(prov, key, rfile, job, output_path, compile_pdf, dir, o1, o2, save_ok, c) ==
    LET base == [NoCli EXCEPT !.before = dir, !.files = dir]
    IN  IF job.status = "missing" \/ (job.kind = "arg" /\ job.text = <<>>)
        THEN [out |-> [base EXCEPT !.exit = 1],
              run |-> Run("cli", <<>>, {}, <<>>, "Rejected", "UsageError")]
        ELSE IF rfile.status = "missing"
        THEN [out |-> [base EXCEPT !.job_description = job.text, !.exit = 1],
              run |-> Run("cli", <<>>, {}, <<>>, "Rejected", "UsageError")]
        ELSE IF key = <<>>
        THEN \* LLMService.__init__ raises ValueError
             [out |-> [base EXCEPT !.job_description = job.text, !.exit = 1],
              run |-> Run("cli", <<>>, {}, <<>>, "Failed", "ProviderAuthError")]
        ELSE process_resume(prov, rfile, job.text, output_path, compile_pdf, dir,
                            o1, o2, save_ok, c)

\* one run of the command line: a process of its own, from its start to its exit
CommandLine ==
    /\ entry = "main"
    /\ lastRun = NoRun
    /\ \E prov \in {"openai", "gemini"}, key \in CliKeys, rfile \in ResumeFiles,
          job \in JobSources, compile_pdf \in BOOLEAN, dir \in OutputDirs,
          o \in RunOutcomes, save_ok \in BOOLEAN, c \in CompilerBehaviours :
          LET m == main(prov, key, rfile, job, DefaultOutput, compile_pdf, dir,
                        o[1], o[2], save_ok, c)
          IN  /\ lastRun' = m.run
              /\ cli' = m.out
    /\ UNCHANGED <<resume_text, job_description, processing, latex_output, conversation,
                   followups_used, max_followups, processing_followup,
                   transformed_content, provider, api_key, nRefined, pipeline, entry,
                   server>>

-----------------------------------------------------------------------------
(* latex_generator.py called on its own *)

\* the directory a caller may hand to compile_to_pdf: with or without the
\* document, with the PDF of an earlier compilation, with byproducts of an
\* earlier compilation, with the log of another document
CompileDirs ==
    LET doc == File("updated_resume", ".tex")
    IN  {{}, {doc}, {File("updated_resume", ".txt")},
         {doc, File("updated_resume", ".pdf")},
         {doc, File("other", ".log")},
         {doc} \cup {File("updated_resume", intermediate_extensions[i]) :
                        i \in 1..Len(intermediate_extensions)}}

\* one call of LaTeXGenerator().compile_to_pdf(tex_path, cleanup)
CompileCall ==
    /\ entry = "latex_generator"
    /\ lastRun = NoRun
    /\ \E dir \in CompileDirs, tex_path \in TexPaths, cleanup \in BOOLEAN,
          c \in CompilerBehaviours :
          LET k == Compiled([NoCli EXCEPT !.before = dir, !.tex = tex_path],
                            dir, tex_path, cleanup, c)
          IN  /\ cli' = k
              /\ lastRun' = IF k.compile = "returned"
                            THEN Run("compile", <<"Compiling">>, {}, <<>>, "Done", "none")
                            ELSE Run("compile", <<"Compiling">>, {"Compiling"}, <<>>,
                                     "Failed", k.compile)
    /\ UNCHANGED <<resume_text, job_description, processing, latex_output, conversation,
                   followups_used, max_followups, processing_followup,
                   transformed_content, provider, api_key, nRefined, pipeline, entry,
                   server>>

-----------------------------------------------------------------------------
(* streamlit_app.py, several sessions served by one process *)

\* Streamlit runs the script of every browser session in a thread of the one
\* server process: st.session_state is per session, the imported modules
\* (google.generativeai among them) are shared.  Two sessions are followed
\* here, statement by statement where they touch the provider.
SessionIds == {"A", "B"}

\* the resume each session's user pastes
SessionResume(x) == IF x = "A" THEN <<ResumeTokens[1]>> ELSE <<ResumeTokens[2]>>

\* the API keys each session's user may enter
SessionKeys(x) == IF x = "A" THEN {<<"AIza", "a">>} ELSE {<<"AIza", "b">>, <<"sk-", "b">>}

\* the feedback a session's user types
SessionFeedback == <<" ", "feedback">>

\* LLMService(provider, api_key) of a handler not yet constructed
NoService == [provider |-> "unset", api_key |-> None, client |-> None]

\* one session: its st.session_state (`s`), where its script stands (`pc`),
\* the LLMService of the running handler, and of that handler: the operation,
\* the session state it started from, the feedback, the outcomes of its
\* provider calls, the key each call was made with, and the result of
\* refine_with_feedback held in local variables; `expected` is the session
\* state the last handler that returned would have left had it run alone
NewSession ==
    [s |-> initialize_session_state, pc |-> "idle", service |-> NoService,
     op |-> "none", start |-> initialize_session_state, feedback |-> <<>>,
     outs |-> <<>>, calls |-> <<>>, new_content |-> <<>>, new_conversation |-> <<>>,
     expected |-> initialize_session_state]

\* the provider answers
Answers == [ok |-> TRUE, error |-> "none"]

\* the session state that the handler leaves when it runs from `start` to its
\* end with these outcomes of its provider calls and nothing else runs
RunAlone(e, outs) ==
    LET o1 == outs[1]
        o2 == IF Len(outs) > 1 THEN outs[2] ELSE Answers
    IN  IF e.op = "transform"
        THEN transform_handler(e.start, e.service.api_key, e.service.provider, o1, o2).s
        ELSE followup_handler(e.start, e.feedback, o1, o2).s

\* the handler of a session returns: its local variables are gone
Return(e, outs) ==
    [e EXCEPT !.pc = "idle", !.expected = RunAlone(e, outs),
              !.start = initialize_session_state, !.outs = <<>>, !.service = NoService,
              !.new_content = <<>>, !.new_conversation = <<>>]

\* genai.configure(api_key=...): sets the key of the module, for every session
configure(prov, key, global) == IF prov = "gemini" THEN key ELSE global

\* LLMService.__init__: OpenAI(api_key=...) holds the key in the client of this
\* instance; genai.GenerativeModel(...) holds no key, it gets its client from
\* the module when it is first used
LLMService(prov, key) ==
    [provider |-> prov, api_key |-> key,
     client |-> IF prov = "gemini" THEN None ELSE key]

\* the key a provider call of this service is made with
credential(service, global) ==
    IF service.client # None THEN service.client ELSE global

\* a provider call as logged: the key it was made with and the key of the
\* session that made it
call(kind, service, global) ==
    [kind |-> kind, key |-> credential(service, global), own |-> service.api_key]

\* the service after a call: the GenerativeModel keeps the client it got
bound(service, global) == [service EXCEPT !.client = credential(service, global)]

\* the variables of the single session followed by Spec
alone == <<entry, resume_text, job_description, processing, latex_output,
           conversation, followups_used, max_followups, processing_followup,
           transformed_content, provider, api_key, nRefined, pipeline, lastRun, cli>>

\* transform_except without the two assignments
transform_except_keeps_flags(s) == s

\* main(), `except Exception as e:` of the Transform handler: both flags are
\* reset
transform_except(s) == [s EXCEPT !.processing = FALSE, !.processing_followup = FALSE]

\* main(), `except Exception as e:` of the Apply Feedback handler
followup_except(s) == [s EXCEPT !.processing_followup = FALSE]

\* a rerun of a session's script caused by one input widget: the user pastes
\* the resume, or the job description
SessionRerun(x) ==
    /\ sessions[x].pc = "idle"
    /\ \E rw \in {Untouched, [method |-> "paste", status |-> "ok", text |-> SessionResume(x)]},
          jw \in {Untouched, [method |-> "paste", status |-> "ok", text |-> <<"jobA">>]} :
          /\ (rw = Untouched) # (jw = Untouched)
          /\ sessions' = [sessions EXCEPT ![x].s = input_section(@, rw, jw)]
    /\ UNCHANGED <<genai_key, alone>>

\* `if process_button:` up to `llm_service = LLMService(provider=provider,
\* api_key=api_key)`, for inputs that pass the validation
TransformStart(x) ==
    /\ sessions[x].pc = "idle"
    /\ ~sessions[x].s.processing
    /\ Truthy(sessions[x].s.resume_text) /\ Truthy(sessions[x].s.job_description)
    /\ \E key \in SessionKeys(x) :
          LET prov == detect_api_provider(key)
              e == sessions[x]
          IN  /\ genai_key' = configure(prov, key, genai_key)
              /\ sessions' = [sessions EXCEPT ![x] =
                    [e EXCEPT !.pc = "transform", !.op = "transform", !.start = e.s,
                              !.s = [e.s EXCEPT !.processing = TRUE],
                              !.service = LLMService(prov, key),
                              !.feedback = <<>>, !.outs = <<>>, !.calls = <<>>]]
    /\ UNCHANGED alone

\* llm_service.transform_resume_with_history(...) and the assignments after
\* it, or the `except` branch
TransformCall(x) ==
    /\ sessions[x].pc = "transform"
    /\ \E o \in ProviderOutcomes :
          LET e == sessions[x]
              t == transform_resume_with_history(e.service.provider, e.s.resume_text,
                                                 e.s.job_description, o)
              log == [e EXCEPT !.outs = Append(@, o),
                               !.calls = Append(@, call("transform", e.service, genai_key)),
                               !.service = bound(e.service, genai_key)]
          IN  sessions' = [sessions EXCEPT ![x] =
                 IF t.ok
                 THEN [log EXCEPT !.pc = "format",
                                  !.s = transform_commit(e.s, t.content, t.history,
                                                         e.service.provider, e.service.api_key)]
                 ELSE [Return(log, log.outs) EXCEPT !.s = transform_except(e.s)]]
    /\ UNCHANGED <<genai_key, alone>>

\* llm_service.format_to_latex(transformed_content, latex_template) of the
\* Transform handler and what follows it, or the `except` branch
TransformFormatCall(x) ==
    /\ sessions[x].pc = "format"
    /\ \E o \in ProviderOutcomes :
          LET e == sessions[x]
              f == format_to_latex(e.service.provider, e.s.transformed_content,
                                   get_default_template, o)
              off(s) == [s EXCEPT !.processing = FALSE, !.processing_followup = FALSE]
          IN  sessions' = [sessions EXCEPT ![x] =
                 [Return(e, Append(e.outs, o))
                     EXCEPT !.calls = Append(@, call("format", e.service, genai_key)),
                            !.s = IF f.ok THEN off([e.s EXCEPT !.latex_output = f.latex])
                                  ELSE transform_except(e.s)]]
    /\ UNCHANGED <<genai_key, alone>>

\* `if apply_button:` up to `llm_service = LLMService(provider=
\* st.session_state.provider, api_key=st.session_state.api_key)`, for a
\* feedback that is not blank
FollowupStart(x) ==
    /\ sessions[x].pc = "idle"
    /\ followup_shown(sessions[x].s)
    /\ ~apply_blocked(sessions[x].s)
    /\ ~feedback_missing(SessionFeedback)
    /\ LET e == sessions[x]
       IN  /\ genai_key' = configure(e.s.provider, e.s.api_key, genai_key)
           /\ sessions' = [sessions EXCEPT ![x] =
                 [e EXCEPT !.pc = "refine", !.op = "followup", !.start = e.s,
                           !.s = [e.s EXCEPT !.processing_followup = TRUE],
                           !.service = LLMService(e.s.provider, e.s.api_key),
                           !.feedback = SessionFeedback, !.outs = <<>>, !.calls = <<>>]]
    /\ UNCHANGED alone

\* llm_service.refine_with_feedback(st.session_state.conversation, feedback),
\* or the `except` branch
RefineCall(x) ==
    /\ sessions[x].pc = "refine"
    /\ \E o \in ProviderOutcomes :
          LET e == sessions[x]
              r == refine_with_feedback(e.service.provider, e.s.conversation, e.feedback, o)
              log == [e EXCEPT !.outs = Append(@, o),
                               !.calls = Append(@, call("refine", e.service, genai_key)),
                               !.service = bound(e.service, genai_key)]
          IN  sessions' = [sessions EXCEPT ![x] =
                 IF r.ok
                 THEN [log EXCEPT !.pc = "reformat", !.new_content = r.content,
                                  !.new_conversation = r.history]
                 ELSE [Return(log, log.outs) EXCEPT !.s = followup_except(e.s)]]
    /\ UNCHANGED <<genai_key, alone>>

\* llm_service.format_to_latex(new_content, latex_template) of the Apply
\* Feedback handler and the assignments after it, or the `except` branch
FollowupFormatCall(x) ==
    /\ sessions[x].pc = "reformat"
    /\ \E o \in ProviderOutcomes :
          LET e == sessions[x]
              f == format_to_latex(e.service.provider, e.new_content, get_default_template, o)
          IN  sessions' = [sessions EXCEPT ![x] =
                 [Return(e, Append(e.outs, o))
                     EXCEPT !.calls = Append(@, call("format", e.service, genai_key)),
                            !.s = IF f.ok
                                  THEN followup_commit(e.s, e.new_content, e.new_conversation,
                                                       f.latex)
                                  ELSE followup_except(e.s)]]
    /\ UNCHANGED <<genai_key, alone>>

-----------------------------------------------------------------------------

Init ==
    /\ entry \in {"streamlit_app", "main", "latex_generator"}
    /\ resume_text = initialize_session_state.resume_text
    /\ job_description = initialize_session_state.job_description
    /\ processing = initialize_session_state.processing
    /\ latex_output = initialize_session_state.latex_output
    /\ conversation = initialize_session_state.conversation
    /\ followups_used = initialize_session_state.followups_used
    /\ max_followups = initialize_session_state.max_followups
    /\ processing_followup = initialize_session_state.processing_followup
    /\ transformed_content = initialize_session_state.transformed_content
    /\ provider = initialize_session_state.provider
    /\ api_key = initialize_session_state.api_key
    /\ nRefined = 0
    /\ pipeline = "none"
    /\ lastRun = NoRun
    /\ cli = NoCli
    /\ genai_key = None
    /\ sessions = [x \in SessionIds |-> NewSession]

Next ==
    \/ WidgetRerun
    \/ TransformClick
    \/ ApplyFeedbackClick
    \/ CommandLine
    \/ CompileCall

Spec == Init /\ [][Next]_vars

\* two sessions of one server process, their handlers interleaved
ServerInit == Init /\ entry = "streamlit_app"

ServerNext ==
    \E x \in SessionIds :
        \/ SessionRerun(x)
        \/ TransformStart(x)
        \/ TransformCall(x)
        \/ TransformFormatCall(x)
        \/ FollowupStart(x)
        \/ RefineCall(x)
        \/ FollowupFormatCall(x)

Server == ServerInit /\ [][ServerNext]_vars

-----------------------------------------------------------------------------
(* Properties *)

Has(seq, x) == \E i \in 1..Len(seq) : seq[i] = x

\* the steps of Apply Feedback: the only ones that leave a "followup" log
FollowupStep == lastRun'.op = "followup"

ReturnedHistoryShape ==
    LET h == lastRun'.refined
        n == Len(h)
    IN  /\ n = Len(conversation) + 2
        /\ IsPrefix(conversation, h)
        /\ h[n - 1].role = "user"
        /\ Contains(h[n - 1].content, lastRun'.feedback)
        /\ h[n].role = "assistant"

C4_LengthTwoPlusTwoN ==
    conversation # <<>> => Len(conversation) = 2 + 2 * nRefined

\* C4, amended: after N successful refinements (0 <= N <= 5) the conversation
\* holds exactly 3 + 2N messages: the two seed messages, the reply of the
\* transform, and a feedback message and a reply per refinement.
C4_LengthThreePlusTwoN ==
    conversation # <<>> => /\ nRefined \in 0..5
                           /\ Len(conversation) = 3 + 2 * nRefined

C4_Witness ==
    /\ nRefined = 5
    /\ Len(conversation) = 13

\* C5: a transform of a non-empty resume and job description returns
\* non-empty content and a history of exactly 3 messages (2 seed messages and
\* the reply) and leaves used = 0; after one following refinement used = 1
\* and the history holds 5 messages.
C5_TransformThenOneRefinement ==
    /\ (lastRun.op = "transform" /\ Answered(lastRun, "Transforming"))
          => /\ Truthy(resume_text) /\ Truthy(job_description)
             /\ Truthy(transformed_content)
             /\ Len(conversation) = 3
             /\ SubSeq(conversation, 1, 2) = seed(resume_text, job_description)
             /\ conversation[3] = Msg("assistant", transformed_content)
             /\ followups_used = 0
    /\ (conversation # <<>> /\ nRefined = 1)
          => /\ followups_used = 1
             /\ Len(conversation) = 5

C5_Witness ==
    /\ lastRun.op = "followup"
    /\ lastRun.result = "Done"
    /\ nRefined = 1
    /\ followups_used = 1
    /\ Len(conversation) = 5

\* the first two entries: the system message, then the user seed message
SeedHead(h) ==
    /\ Len(h) >= 2
    /\ h[1].role = "system"
    /\ h[2].role = "user"
    /\ \E r \in ResumeTexts, j \in JobTexts : SubSeq(h, 1, 2) = seed(r, j)

\* C6: between two transform submissions the conversation is append-only:
\* after every operation the earlier conversation is a prefix of the current
\* one, and its first two entries are always a system message followed by
\* the user seed message.
C6_AppendOnly ==
    [][ /\ lastRun'.op # "transform" => IsPrefix(conversation, conversation')
        /\ (lastRun'.op = "transform" /\ ~Answered(lastRun', "Transforming"))
              => conversation' = conversation
        /\ conversation' # <<>> => SeedHead(conversation') ]_vars

C6_Witness ==
    /\ lastRun.op = "followup"
    /\ lastRun.result = "Done"
    /\ Len(conversation) >= 7
    /\ SeedHead(conversation)

\* C7: an attempt whose feedback is empty or whitespace-only is rejected
\* (InvalidFeedbackError while the feedback box is enabled): no Refining
\* stage is entered, no provider call is issued, and the conversation, the
\* budget counter, the content and the document are unchanged.
C7_BlankFeedbackRejected ==
    [][ (FollowupStep /\ strip(lastRun'.feedback) = <<>>)
        => /\ lastRun'.result = "Rejected"
           /\ followups_used < max_followups => lastRun'.error = "InvalidFeedbackError"
           /\ lastRun'.stages = <<>>
           /\ lastRun'.calls = <<>>
           /\ UNCHANGED <<conversation, followups_used, max_followups,
                          transformed_content, latex_output>> ]_vars

C7_Witness ==
    /\ lastRun.op = "followup"
    /\ lastRun.feedback = <<"\n", " ">>
    /\ lastRun.error = "InvalidFeedbackError"
    /\ conversation # <<>>

\* the texts the transform stage was invoked with in the last run
StageResume == IF lastRun.op = "cli" THEN cli.resume_text ELSE resume_text

StageJob == IF lastRun.op = "cli" THEN cli.job_description ELSE job_description

\* the last run got as far as invoking the transform stage
StageInvoked ==
    \/ lastRun.op = "cli" /\ Has(lastRun.stages, "Transforming")
    \/ lastRun.op = "transform" /\ lastRun.error # "ProviderAuthError"

\* C8: the transform stage invoked with an empty resume text or an empty job
\* description fails with EmptyInputError before any provider call is
\* issued, on the command line and in the front-end alike.
C8_EmptyInputFailsBeforeCall ==
    (StageInvoked /\ (~Truthy(StageResume) \/ ~Truthy(StageJob)))
        => /\ lastRun.error = "EmptyInputError"
           /\ lastRun.calls = <<>>
           /\ lastRun.result # "Done"

PipelineOrder == <<"Extracting", "Transforming", "Formatting", "Compiling">>

Rank(stage) == CHOOSE i \in 1..Len(PipelineOrder) : PipelineOrder[i] = stage

PipelineRun == lastRun.op \in {"transform", "cli"}

C10_RefiningOnlyAfterDone ==
    (lastRun.op = "followup" /\ Has(lastRun.stages, "Refining"))
        => pipeline = "Done"

\* the stages whose failure ends a run: Extracting, Transforming, Formatting
\* (an extraction of the front-end's input section counts as Extracting)
EarlyFailure ==
    \/ lastRun.input_failed
    \/ lastRun.failed \cap {"Extracting", "Transforming", "Formatting"} # {}

\* the last stage the run entered is the one that raised
StoppedAtFailure ==
    /\ lastRun.stages # <<>>
    /\ lastRun.failed = {lastRun.stages[Len(lastRun.stages)]}

\* C11: a pipeline run in which the extraction, the transform or the format
\* stage fails ends in Failed with that stage's error: the failed stage is the
\* last one entered, no provider call follows it, nothing is saved or
\* compiled, and the run is not Done.
C11_StageFailureEndsRun ==
    (PipelineRun /\ EarlyFailure)
        => /\ lastRun.result # "Done"
           /\ IF lastRun.input_failed
              THEN lastRun.stages = <<>> /\ lastRun.calls = <<>>
              ELSE /\ lastRun.result = "Failed"
                   /\ lastRun.error \in ProviderErrors \cup {"ExtractionError"}
                   /\ StoppedAtFailure
           /\ "Extracting" \in lastRun.failed => lastRun.calls = <<>>
           /\ "Transforming" \in lastRun.failed => lastRun.calls = <<"transform">>
           /\ ~cli.saved
           /\ cli.compile = "none"

FatalCompilerErrors == {"ToolNotFoundError", "CompilationTimeoutError"}

\* C12: a run whose compile call fails with ToolNotFoundError or
\* CompilationTimeoutError ends in Failed carrying that error and is not
\* Done; a run that is Done after a compile call without an artifact got the
\* non-fatal (false, none) result.
C12_FatalCompilerErrorAborts ==
    /\ cli.compile \in FatalCompilerErrors
          => /\ lastRun.result = "Failed"
             /\ lastRun.error = cli.compile
    /\ (lastRun.result = "Done" /\ Has(lastRun.stages, "Compiling") /\ cli.pdf_path = NoPath)
          => /\ cli.compile = "returned"
             /\ ~cli.success

\* the compile call of the last run ran both passes, neither ran into its
\* timeout, and the PDF is not in the directory it left
ArtifactAbsentAfterPasses ==
    /\ cli.passes = 2
    /\ cli.compile # "CompilationTimeoutError"
    /\ File(cli.tex.stem, ".pdf") \notin cli.files

\* C13: when the PDF is absent after both passes, compile_to_pdf returns
\* (false, none) without raising, and a pipeline run is Done with no artifact
\* path and with the saved document still in place.
C13_AbsentArtifactIsNotFatal ==
    ArtifactAbsentAfterPasses
        => /\ cli.compile = "returned"
           /\ ~cli.success
           /\ cli.pdf_path = NoPath
           /\ cli.tex \in cli.files
           /\ lastRun.result = "Done"
           /\ lastRun.error = "none"
           /\ lastRun.op = "cli" => (cli.saved /\ cli.exit = 0 /\ cli.tex = DefaultOutput)

C13_Witness ==
    /\ lastRun.op = "cli"
    /\ ArtifactAbsentAfterPasses
    /\ lastRun.stages = PipelineOrder
    /\ lastRun.result = "Done"

\* the runs of the tool on the document, in order (the --version probe is
\* not one of them)
PassesRun ==
    SelectSeq(cli.invocations, LAMBDA inv : inv # version_probe)

\* C14: a compile call that found the tool and returned a result, success or
\* (false, none), ran the tool on the document exactly twice, one run after
\* the other, both with the same arguments and the same file; the tool was
\* probed before the first run.
C14_TwoIdenticalPasses ==
    cli.compile = "returned"
        => /\ Len(PassesRun) = 2
           /\ PassesRun[1] = PassesRun[2]
           /\ PassesRun[1] = <<"pdflatex", "-interaction=nonstopmode", cli.tex.stem, cli.tex.ext>>
           /\ cli.invocations = <<version_probe>> \o PassesRun
           /\ cli.passes = 2

C14_Witness ==
    /\ cli.compile = "returned"
    /\ cli.success
    /\ Len(PassesRun) = 2
    /\ lastRun.op = "compile"

\* compile_to_pdf was called in the last run
CompileCalled == cli.compile # "none"

\* the directory compile_to_pdf was called on
CompileDir == IF cli.saved THEN cli.before \cup {cli.tex} ELSE cli.before

\* C15 as stated: compile_to_pdf called when the tool is not discoverable
\* always fails with ToolNotFoundError, runs no pass, and creates or leaves
\* no file.
C15_MissingToolAlwaysToolNotFound ==
    (CompileCalled /\ cli.tool = "missing")
        => /\ cli.compile = "ToolNotFoundError"
           /\ PassesRun = <<>>
           /\ cli.files = CompileDir

\* C15, amended: compile_to_pdf called on an existing .tex document when the
\* tool is not discoverable always fails with ToolNotFoundError, runs no
\* pass, and creates or leaves no file.  Called on a path that does not
\* exist or has another extension it fails before it looks for the tool,
\* with FileNotFoundError or ValueError, also without a pass or a file.
C15_MissingToolOnDocument ==
    (CompileCalled /\ cli.tool = "missing")
        => /\ PassesRun = <<>>
           /\ cli.files = CompileDir
           /\ ~cli.success /\ cli.pdf_path = NoPath
           /\ cli.compile =
                 (IF cli.tex \notin CompileDir THEN "FileNotFoundError"
                  ELSE IF cli.tex.ext # ".tex" THEN "ValueError"
                  ELSE "ToolNotFoundError")

C15_Witness ==
    /\ CompileCalled
    /\ cli.tool = "missing"
    /\ cli.compile = "ToolNotFoundError"
    /\ cli.tex \in cli.files
    /\ cli.invocations = <<version_probe>>

\* C16: when a pass of a compile call runs into its timeout, the call fails
\* with CompilationTimeoutError and returns no (success, path) result; after
\* a timeout of the first pass the second pass is not run; the document file
\* is still where it was.
C16_TimeoutFails ==
    cli.timeout # 0
        => /\ cli.compile = "CompilationTimeoutError"
           /\ ~cli.success
           /\ cli.pdf_path = NoPath
           /\ Len(PassesRun) = cli.timeout
           /\ cli.tex \in cli.files
           /\ cli.files \ CompileDir \subseteq {File(cli.tex.stem, ".log"),
                                                  File(cli.tex.stem, ".aux"),
                                                  File(cli.tex.stem, ".pdf")}

C16_Witness ==
    /\ cli.timeout = 1
    /\ cli.compile = "CompilationTimeoutError"
    /\ Len(PassesRun) = 1
    /\ lastRun.op = "cli"

\* the six byproduct extensions, as a set
ByproductExtensions == {".log", ".aux", ".out", ".synctex.gz", ".fdb_latexmk", ".fls"}

\* the last compile call was made with cleanup=True and returned success
CleanedSuccess == cli.compile = "returned" /\ cli.success /\ cli.cleanup

\* C17 as stated: after compile_to_pdf(path, cleanup=True) returned success
\* no file with a byproduct extension is left in the document's directory,
\* and the document and the PDF are there.
C17_NoByproductLeft ==
    CleanedSuccess
        => /\ \A f \in cli.files : f.ext \notin ByproductExtensions
           /\ cli.tex \in cli.files
           /\ cli.pdf_path \in cli.files

\* C17, amended: after compile_to_pdf(path, cleanup=True) returned success,
\* every byproduct file of the document (the document's base name with one
\* of the six extensions) whose deletion did not fail is gone; a byproduct
\* whose deletion raised stays, the error being swallowed; files of other
\* base names are not touched, whatever their extension; the document and
\* the PDF are there.
C17_OwnByproductsDeleted ==
    CleanedSuccess
        => /\ \A f \in cli.files :
                 (f.stem = cli.tex.stem /\ f.ext \in ByproductExtensions)
                     => f.ext \in cli.locked
           /\ \A e \in cli.locked : File(cli.tex.stem, e) \in cli.files
           /\ {f \in cli.files : f.stem # cli.tex.stem}
                 = {f \in CompileDir : f.stem # cli.tex.stem}
           /\ cli.tex \in cli.files
           /\ cli.pdf_path = File(cli.tex.stem, ".pdf")
           /\ cli.pdf_path \in cli.files

C17_Witness ==
    /\ CleanedSuccess
    /\ \A e \in ByproductExtensions : File(cli.tex.stem, e) \in CompileDir
    /\ cli.locked = {}
    /\ cli.files = {cli.tex, cli.pdf_path}

\* C18: a compile call returns an artifact path only if a pass of that call
\* wrote the PDF, and success is true exactly when a path is returned -- also
\* when a PDF of the same base name was in the directory before the call.
C18_ArtifactOnlyFromThisCall ==
    cli.compile = "returned"
        => /\ cli.success <=> cli.pdf_path # NoPath
           /\ cli.pdf_path # NoPath => cli.produced

\* the last run issued a format call
FormatCalled == Has(lastRun.calls, "format")

\* C19: a run with a format call, whether the call answered or raised, sent
\* the provider a fresh two-message history (system, user); the conversation
\* holds the seed, the transform's reply and two messages per refinement
\* and nothing from the format call: no message of it is the document; the
\* budget counts the refinements and nothing else.
C19_FormatIsStateless ==
    FormatCalled
        => /\ lastRun.format = <<"system", "user">>
           /\ \A i \in 1..Len(conversation) : conversation[i].content # latex_output
           /\ conversation # <<>> => Len(conversation) = 3 + 2 * nRefined
           /\ followups_used = nRefined

\* no handler is running
AtRest == ~processing /\ ~processing_followup

\* what format_to_latex returns for the stored content when the provider answers
FormatOfStoredContent ==
    format_to_latex(provider, transformed_content, get_default_template,
                    [ok |-> TRUE, error |-> "none"]).latex

\* C20: whenever the session is at rest and holds a formatted document, the
\* document is the output of the format stage for the transformed content
\* the session holds now.
C20_DocumentMatchesContent ==
    (entry = "streamlit_app" /\ AtRest /\ Truthy(latex_output))
        => /\ Truthy(transformed_content)
           /\ latex_output = FormatOfStoredContent

\* a step changed what the session holds as resume or as job description
InputsChanged ==
    \/ resume_text' # resume_text
    \/ job_description' # job_description

\* the session holds no conversation, no content, no document, and used = 0
Discarded ==
    /\ conversation = <<>>
    /\ ~Truthy(transformed_content)
    /\ ~Truthy(latex_output)
    /\ followups_used = 0

\* a step of Transform Resume that passed the validation of its inputs
SubmissionStep == lastRun'.op = "transform" /\ lastRun'.result # "Rejected"

\* C21: a change of the resume or of the job description leaves the session
\* without conversation, content and document and with used = 0; a submission
\* of the pair to Transform leaves used = 0 and nothing of what was there
\* before: when its transform fails there is no conversation, content or
\* document left to refine or download, and when its format call fails there
\* is no document left.
C21_NewPairResetsState ==
    [][ /\ (entry = "streamlit_app" /\ InputsChanged) => Discarded'
        /\ SubmissionStep
              => /\ followups_used' = 0
                 /\ ~Answered(lastRun', "Transforming") => Discarded'
                 /\ ~Answered(lastRun', "Formatting") => ~Truthy(latex_output') ]_vars

\* the role labels of a Message
Roles == {"system", "user", "assistant"}

\* a role-prefixed block "ROLE: content" starts at position i of the text
BlockAt(t, i) == i + 1 <= Len(t) /\ t[i] \in Roles /\ t[i + 1] = ": "

\* the positions at which a blank line is followed by the start of a block
BlockBreaks(t) ==
    {i \in 1..Len(t) : i + 2 <= Len(t) /\ t[i] = "\n" /\ t[i + 1] = "\n" /\ BlockAt(t, i + 2)}

Least(S) == CHOOSE i \in S : \A j \in S : i <= j

\* a request text read back as the messages of its role-prefixed blocks, in
\* order; a text that does not start with "ROLE: " holds no block
RECURSIVE ParseBlocks(_)
ParseBlocks(t) ==
    IF ~BlockAt(t, 1) THEN <<>>
    ELSE LET rest == SubSeq(t, 3, Len(t))
         IN  IF BlockBreaks(rest) = {} THEN <<Msg(t[1], rest)>>
             ELSE LET k == Least(BlockBreaks(rest))
                  IN  <<Msg(t[1], SubSeq(rest, 1, k - 1))>>
                         \o ParseBlocks(SubSeq(rest, k + 2, Len(rest)))

\* the requests of the step's run that went to the single-turn backend
SingleTurnRequests ==
    {i \in 1..Len(lastRun'.requests) : lastRun'.requests[i].provider = "gemini"}

\* the texts the transform of the step's run was given
GivenResume == IF lastRun'.op = "cli" THEN cli'.resume_text ELSE resume_text'

GivenJob == IF lastRun'.op = "cli" THEN cli'.job_description ELSE job_description'

\* C22: every request sent to the single-turn backend is one text that reads
\* back as the messages of the call, one "ROLE: content" block per message in
\* the order of the messages: system then user (holding the resume and the job
\* description) for a transform, system then user for a format call, and the
\* stored conversation followed by the user's feedback for a refinement; the
\* system message is the first block.
C22_FlattenKeepsEveryMessage ==
    [][ \A i \in SingleTurnRequests :
          LET req == lastRun'.requests[i]
              b == ParseBlocks(req.text)
          IN  /\ req.shape = "text"
              /\ Len(b) = (IF req.kind = "refine" THEN Len(conversation) + 1 ELSE 2)
              /\ b[1] = Msg("system", IF req.kind = "format" THEN FormatSystem
                                      ELSE TransformSystem)
              /\ b[Len(b)].role = "user"
              /\ req.kind = "transform"
                    => /\ Contains(b[2].content, GivenResume)
                       /\ Contains(b[2].content, GivenJob)
              /\ req.kind = "refine"
                    => /\ SubSeq(b, 1, Len(conversation)) = conversation
                       /\ Contains(b[Len(b)].content, lastRun'.feedback) ]_vars

\* the handler a session ran last has returned
Returned(e) == e.pc = "idle" /\ e.op # "none"

\* C23: whatever the interleaving of the two sessions, every provider call of
\* a session is made with the key of that session, and when a handler of a
\* session returns, the session's conversation, budget, content and document
\* (its whole st.session_state) are what the handler leaves when it runs alone
\* with the same provider outcomes.
C23_SessionsIndependent ==
    \A x \in SessionIds :
        LET e == sessions[x]
        IN  /\ \A i \in 1..Len(e.calls) : e.calls[i].key = e.calls[i].own
            /\ Returned(e) => e.s = e.expected

\* the last run was an Apply Feedback cycle that ended as successful
FollowupDone == lastRun.op = "followup" /\ lastRun.result = "Done"

\* the refinement interface is shown and takes the next feedback
AwaitingFeedback == followup_shown(Session) /\ ~processing_followup

SentHistory(req) ==
    IF req.shape = "messages" THEN req.messages ELSE ParseBlocks(req.text)

\* the transform requests of the last run
TransformRequests ==
    {i \in 1..Len(lastRun.requests) : lastRun.requests[i].kind = "transform"}

\* C25: a transform of a non-empty resume text and job description sends its
\* backend, whichever it is, a history of exactly 2 messages: a system message
\* first, then a user message whose content holds both input texts verbatim.
C25_SeedSentToEveryBackend ==
    \A i \in TransformRequests :
        (Truthy(StageResume) /\ Truthy(StageJob))
            => LET h == SentHistory(lastRun.requests[i])
               IN  /\ Len(h) = 2
                   /\ h[1].role = "system"
                   /\ h[2].role = "user"
                   /\ Contains(h[2].content, StageResume)
                   /\ Contains(h[2].content, StageJob)

\* what a follow-up cycle commits
Committed == <<conversation, transformed_content, latex_output, followups_used>>

\* C26: a follow-up cycle commits atomically.  A cycle is successful exactly
\* when the refinement call and the format call both returned; then the
\* conversation, the content, the document and the counter are set together,
\* to the returned history, its last reply, the document of that reply, and
\* used + 1.  In every other cycle (rejected, refinement failed, format
\* failed) all four are exactly what they were before.
C26_FollowupCommitsAtomically ==
    [][ FollowupStep
        => /\ lastRun'.result = "Done"
                <=> (Answered(lastRun', "Refining") /\ Answered(lastRun', "Formatting"))
           /\ IF lastRun'.result = "Done"
              THEN /\ conversation' = lastRun'.refined
                   /\ conversation' # conversation
                   /\ transformed_content'
                         = conversation'[Len(conversation')].content
                   /\ transformed_content' # transformed_content
                   /\ latex_output' = FormatOfStoredContent'
                   /\ followups_used' = followups_used + 1
              ELSE UNCHANGED Committed ]_vars

C26_Witness ==
    /\ lastRun.op = "followup"
    /\ lastRun.failed = {"Formatting"}
    /\ lastRun.calls = <<"refine", "format">>
    /\ Len(lastRun.refined) = Len(conversation) + 2
    /\ nRefined = 1
    /\ followups_used = 1
    /\ Len(conversation) = 5
    /\ latex_output = FormatOfStoredContent

\* the last message of the stored conversation is the assistant's reply that
\* the session holds as its transformed content
ContentIsLastReply ==
    /\ conversation # <<>>
    /\ conversation[Len(conversation)] = Msg("assistant", transformed_content)

\* C27: whenever the session is at rest and holds transformed content, the
\* content is the content of the last assistant message of the stored
\* conversation.  A step changes the content only if it is a Transform run
\* whose transform call returned or an Apply Feedback run that was committed,
\* and then the reply is appended with it: the conversation is the seed plus
\* the new reply after a transform, and the conversation before plus the
\* feedback message and the new reply after a refinement.
C27_ContentIsLastReply ==
    [][ /\ (AtRest' /\ Truthy(transformed_content')) => ContentIsLastReply'
        /\ transformed_content' # transformed_content
              => /\ ContentIsLastReply'
                 /\ \/ /\ lastRun'.op = "transform"
                       /\ Answered(lastRun', "Transforming")
                       /\ Len(conversation') = 3
                    \/ /\ lastRun'.op = "followup"
                       /\ lastRun'.result = "Done"
                       /\ IsPrefix(conversation, conversation')
                       /\ Len(conversation') = Len(conversation) + 2
                       /\ conversation'[Len(conversation) + 1].role = "user" ]_vars

C27_Witness ==
    /\ lastRun.op = "followup"
    /\ lastRun.result = "Done"
    /\ transformed_content = <<"revision4">>
    /\ ContentIsLastReply
    /\ Len(conversation) = 9

\* a handler of the session is running
Running(x) == sessions[x].pc # "idle"

\* Transform Resume delivers clicks: `disabled=st.session_state.processing`
transform_enabled(s) == ~s.processing

\* no handler of the session is running, both flags are false, Transform
\* Resume is enabled, and so is Apply Feedback when the refinement interface
\* is shown and budget remains
Ready(x) ==
    LET s == sessions[x].s
    IN  /\ ~Running(x)
        /\ ~s.processing
        /\ ~s.processing_followup
        /\ transform_enabled(s)
        /\ (followup_shown(s) /\ ~feedback_disabled(s)) => ~apply_blocked(s)

\* the provider calls a running handler still has to make
CallsLeft(x) ==
    CASE sessions[x].pc \in {"transform", "refine"} -> 2
      [] sessions[x].pc \in {"format", "reformat"} -> 1
      [] OTHER -> 0

\* C28: in every session, whatever the other session does, a flag is set only
\* while a handler of the session runs; every step of a running handler
\* brings it closer to its end, which it reaches after at most two provider
\* calls on whichever path (both calls answered, or one of them raised); and
\* whenever no handler runs, processing and processing_followup are false:
\* Transform Resume is enabled again, and Apply Feedback is, subject only to
\* the remaining budget.
C28_FlagsAlwaysReset ==
    [][ \A x \in SessionIds :
          /\ ~Running(x)' => Ready(x)'
          /\ sessions'[x].s.processing => sessions'[x].pc \in {"transform", "format"}
          /\ sessions'[x].s.processing_followup => sessions'[x].pc \in {"refine", "reformat"}
          /\ (Running(x) /\ sessions'[x] # sessions[x])
                => CallsLeft(x)' = CallsLeft(x) - 1 \/ ~Running(x)' ]_vars

C28_Witness ==
    /\ Ready("A")
    /\ sessions["A"].op = "followup"
    /\ Len(sessions["A"].calls) = 2
    /\ sessions["A"].s.followups_used = 0
    /\ Running("B")
    /\ sessions["B"].s.processing

=============================================================================
